---- MODULE Spec2Model ----
(***************************************************************************)
(* Model of the invoice memory engine: the SQLite-backed MemoryStore       *)
(* (src/src/memoryStore.ts) and the recall -> apply -> decide -> learn     *)
(* pipeline of MemoryEngine (src/src/types.ts, lines 70-290).              *)
(*                                                                         *)
(* Numbers.  Confidences, thresholds and decay rates are IEEE doubles in   *)
(* the code; here they are integers counting thousandths (0.45 is 450),    *)
(* and a product is rounded to the nearest thousandth.  Timestamps are in  *)
(* whole days (the code divides milliseconds by 86400000).  Money is in    *)
(* cents and a VAT rate in thousandths.                                    *)
(*                                                                         *)
(* Absent values.  Undef stands for JavaScript's undefined, Null for SQL   *)
(* NULL; NoNum is an absent number.                                        *)
(***************************************************************************)
EXTENDS Integers, Sequences, FiniteSets, TLC

VARIABLES
  memories,   \* table memories: the rows, in rowid order
  audit,      \* table audit: the rows, in rowid order
  now,        \* what Date.now() returns, in days
  options,    \* MemoryEngine.options (the two thresholds)
  call,       \* the last operation called, with its arguments
  result      \* what that operation returned

vars == <<memories, audit, now, options, call, result>>

----------------------------------------------------------------------------
(* Bounds of the model *)

MaxUpserts == 2
MaxDay == 1

----------------------------------------------------------------------------
(* Values *)

Undef == "<undefined>"
Null == "<null>"
NoNum == -1

One == 1000

DefaultDecayRate == 10

\* No operation called yet, and nothing returned
NoCall == [op |-> "none"]
NoResult == [kind |-> "none"]

\* DEFAULTS of the engine options
DefaultOptions == [minConfidenceToApply |-> 450, minConfidenceToAutoAccept |-> 700]

\* JavaScript truthiness of an optional string / an optional number
TruthyStr(s) == s # Undef /\ s # Null /\ s # ""
TruthyNum(n) == n # NoNum /\ n # 0

\* `${x}` in a template string
Str(s) == IF s = Undef THEN "undefined" ELSE s

\* x ?? null, as bound to a statement parameter
OrNull(v) == IF v = Undef THEN Null ELSE v

\* const x = ...: Only({F(x) : x \in {e}}) is F(e) with e computed once
Only(S) == CHOOSE x \in S : TRUE

Max(a, b) == IF a >= b THEN a ELSE b
Min(a, b) == IF a <= b THEN a ELSE b

\* a * b on thousandths, rounded to the nearest thousandth
MulMilli(a, b) == (a * b + 500) \div 1000

\* a / b on thousandths, rounded to the nearest thousandth (b > 0)
DivMilli(a, b) == (2 * a * 1000 + b) \div (2 * b)

RECURSIVE PowNat(_, _)
PowNat(base, k) == IF k = 0 THEN One ELSE MulMilli(PowNat(base, k - 1), base)

\* Math.pow(base, k) for a whole number k of either sign
Pow(base, k) == IF k >= 0 THEN PowNat(base, k) ELSE DivMilli(One, PowNat(base, 0 - k))

----------------------------------------------------------------------------
(* MemoryStore *)

NoRow == <<>>

\* getMemory with vendor=? alone: NULL is equal to nothing, NULL included
GetMemoryByEquality(mem, kind, vendor, key) ==
  LET Match(r) == r.kind = kind /\ r.key = key /\ vendor # Undef /\ r.vendor = vendor
      rows == SelectSeq(mem, Match)
  IN IF rows = <<>> THEN NoRow ELSE <<Head(rows)>>

\* getMemory with the clause of queryMemories, (vendor IS NULL OR vendor=?)
GetMemoryUnscopedToo(mem, kind, vendor, key) ==
  LET Match(r) == r.kind = kind /\ r.key = key /\ (r.vendor = Null \/ r.vendor = vendor)
      rows == SelectSeq(mem, Match)
  IN IF rows = <<>> THEN NoRow ELSE <<Head(rows)>>

\* SELECT * FROM memories WHERE kind=? AND key=? AND (vendor IS ? OR vendor=?)
\* with both vendor parameters bound to vendor ?? null: the first row, or none
GetMemory(mem, kind, vendor, key) ==
  LET v == OrNull(vendor)
      Match(r) == r.kind = kind /\ r.key = key /\ r.vendor = v
      rows == SelectSeq(mem, Match)
  IN IF rows = <<>> THEN NoRow ELSE <<Head(rows)>>

\* The UPDATE of upsertMemory without hits=?
UpdateRowKeepHits(mem, id, value, confidence, hits, decayRate, t) ==
  [i \in 1..Len(mem) |->
     IF mem[i].id = id
     THEN [mem[i] EXCEPT !.value = value, !.confidence = confidence,
                         !.decayRate = decayRate, !.lastUpdated = t]
     ELSE mem[i]]

\* The UPDATE of upsertMemory: the row with the given id, rewritten
UpdateRow(mem, id, value, confidence, hits, decayRate, t) ==
  [i \in 1..Len(mem) |->
     IF mem[i].id = id
     THEN [mem[i] EXCEPT !.value = value, !.confidence = confidence, !.hits = hits,
                         !.decayRate = decayRate, !.lastUpdated = t]
     ELSE mem[i]]

\* Reinforced without the Math.min(1, ...) clamp
ReinforcedUnclamped(confidence, decay, incoming) ==
  MulMilli(confidence, One - decay) + incoming

\* Math.min(1, existing.confidence * (1 - decay) + params.confidence)
Reinforced(confidence, decay, incoming) ==
  Min(One, MulMilli(confidence, One - decay) + incoming)

\* Whether idx_unique_memory refuses the row: a row with the same kind, vendor
\* and key is there already.  SQLite holds NULLs distinct in a unique index, so
\* a row without vendor is never refused.
UniqueViolation(mem, row) ==
  /\ row.vendor # Null
  /\ \E i \in 1..Len(mem) :
        mem[i].kind = row.kind /\ mem[i].vendor = row.vendor /\ mem[i].key = row.key

\* upsertMemory from "if (existing)" on, at time t, with the row getMemory found:
\* the table afterwards and the record returned, or threw when the INSERT fails
UpsertWrite(mem, params, existing, t) ==
  LET decay == IF params.decayRate = NoNum THEN DefaultDecayRate ELSE params.decayRate
  IN IF existing # NoRow
     THEN LET e == existing[1]
              newConfidence == Reinforced(e.confidence, decay, params.confidence)
              hits == e.hits + 1
          IN [memories |-> UpdateRow(mem, e.id, params.value, newConfidence, hits, decay, t),
              threw |-> FALSE,
              record |-> [e EXCEPT !.value = params.value, !.confidence = newConfidence,
                                   !.hits = hits, !.decayRate = decay, !.lastUpdated = t]]
     ELSE LET row == [id |-> Len(mem) + 1, kind |-> params.kind, vendor |-> OrNull(params.vendor),
                      key |-> params.key, value |-> params.value,
                      confidence |-> params.confidence, hits |-> 1, decayRate |-> decay,
                      createdAt |-> t, lastUpdated |-> t]
          IN IF UniqueViolation(mem, row)
             THEN [memories |-> mem, threw |-> TRUE, record |-> NoRow]
             ELSE [memories |-> Append(mem, row),
                   threw |-> FALSE,
                   record |-> [row EXCEPT !.vendor = params.vendor]]

\* upsertMemory(params) at time t, run without interruption: the table
\* afterwards and the record returned
UpsertMemory(mem, params, t) ==
  Only({ UpsertWrite(mem, params, existing, t)
         : existing \in { GetMemory(mem, params.kind, params.vendor, params.key) } })

\* Math.max(0, row.confidence * Math.pow(1 - row.decayRate, ageDays))
Decayed(row, t) ==
  Max(0, MulMilli(row.confidence, Pow(One - row.decayRate, t - row.lastUpdated)))

\* decayMemories() at time t: the table afterwards
DecayMemories(mem, t) ==
  [i \in 1..Len(mem) |->
     IF Decayed(mem[i], t) # mem[i].confidence
     THEN [mem[i] EXCEPT !.confidence = Decayed(mem[i], t), !.lastUpdated = t]
     ELSE mem[i]]

\* The strings the model compares, in SQLite's BINARY collation order
Collation ==
  << "", "Parts AG", "Supplier GmbH", "autoAccept", "currencyFromRawText",
     "duplicate:Parts AG|INV-1", "duplicate:Parts AG|INV-2", "duplicate:Parts AG|undefined",
     "duplicate:Supplier GmbH|INV-1", "duplicate:Supplier GmbH|INV-2",
     "duplicate:Supplier GmbH|undefined",
     "duplicate:undefined|INV-1", "duplicate:undefined|INV-2", "duplicate:undefined|undefined",
     "duplicate:|INV-1", "duplicate:|INV-2", "duplicate:|undefined",
     "freightSku", "poDefault", "serviceDateFromLeistungsdatum", "skontoTerms",
     "vatInclusiveHint" >>

\* The place of a column value in an index: NULL sorts first
Rank(s) == IF s = Null THEN 0 ELSE CHOOSE i \in 1..Len(Collation) : Collation[i] = s

\* Whether row a comes before row b in idx_unique_memory(kind, vendor, key)
\* (the rows of one search share their kind)
IndexBefore(a, b) ==
  IF a.vendor # b.vendor THEN Rank(a.vendor) < Rank(b.vendor)
  ELSE IF a.key # b.key THEN Rank(a.key) < Rank(b.key)
  ELSE a.id < b.id

\* Whether a must come before b: in the index scan, or under the comparator
\* (a, b) => b.confidence - a.confidence
Precedes(order, a, b) ==
  IF order = "index" THEN IndexBefore(a, b) ELSE a.confidence > b.confidence

\* The place of rows[i] after a stable sort: behind the rows that must come
\* before it and behind the earlier rows it need not come before
Place(order, rows, i) ==
  1 + Cardinality({ j \in 1..Len(rows) :
                      \/ Precedes(order, rows[j], rows[i])
                      \/ j < i /\ ~Precedes(order, rows[i], rows[j]) })

\* A stable sort (Array.prototype.sort is stable)
Sort(order, s) ==
  Only({ Only({ [k \in 1..Len(rows) |-> rows[CHOOSE i \in 1..Len(rows) : place[i] = k]]
                : place \in { [i \in 1..Len(rows) |-> Place(order, rows, i)] } })
         : rows \in {s} })

\* The clause queryMemories adds for its vendor parameter
VendorClause(r, vendor) ==
  IF TruthyStr(vendor) THEN r.vendor = Null \/ r.vendor = vendor ELSE TRUE

\* queryMemories({kind, vendor, minConfidence}): the rows returned, in order.
\* With kind given SQLite searches idx_unique_memory, otherwise it scans the table.
QueryMemories(mem, kind, vendor, minConfidence) ==
  LET floor == IF minConfidence = NoNum THEN 0 ELSE minConfidence
      Where(r) == /\ (TruthyStr(kind) => r.kind = kind)
                  /\ VendorClause(r, vendor)
                  /\ r.confidence >= floor
      rows == SelectSeq(mem, Where)
      scanned == IF TruthyStr(kind) THEN Sort("index", rows) ELSE rows
  IN Sort("confidence", scanned)

\* addAudit that puts the new row before the rows already there
AddAuditFirst(aud, step, details, t) ==
  <<[id |-> Len(aud) + 1, step |-> step, timestamp |-> t, details |-> details]>> \o aud

\* addAudit(step, details) at time t
AddAudit(aud, step, details, t) ==
  Append(aud, [id |-> Len(aud) + 1, step |-> step, timestamp |-> t, details |-> details])

----------------------------------------------------------------------------
(* MemoryEngine: texts, invoices and corrections *)

\* The free texts of the model with the lower-case needles each contains:
\* text.toLowerCase().includes(needle)
IncludesTable ==
  { <<"Betrag 119.00 EUR, 2% Skonto", "skonto">>, <<"Betrag 119.00 EUR, 2% Skonto", "eur">>,
    <<"Total 119.00 EUR", "eur">>,
    <<"Freight charge", "freight">> }

LowerIncludes(text, needle) == <<text, needle>> \in IncludesTable

\* s.toLowerCase() of the currency codes of the model
ToLowerCase(s) == IF s = "EUR" THEN "eur" ELSE s

\* An optional array: undefined, or the list
NoItems == [defined |-> FALSE, list |-> <<>>]
Items(list) == [defined |-> TRUE, list |-> list]

\* An invoice with only its identity set (id is never read by the engine and
\* is left out; an absent vatInclusiveHint is FALSE, only its truthiness is read)
BlankInvoice(vendor, invoiceNumber) ==
  [vendor |-> vendor, invoiceNumber |-> invoiceNumber, issueDate |-> Undef,
   serviceDate |-> Undef, poNumber |-> Undef, currency |-> Undef,
   totalNet |-> NoNum, totalGross |-> NoNum, vatRate |-> NoNum, vatInclusiveHint |-> FALSE,
   items |-> NoItems, rawText |-> Undef, vendorFields |-> [Leistungsdatum |-> Undef]]

\* run's humanCorrection: undefined, or a Partial<NormalizedInvoice> (the fields
\* learn reads)
NoCorrection ==
  [given |-> FALSE, vendor |-> Undef, invoiceNumber |-> Undef, issueDate |-> Undef,
   serviceDate |-> Undef, poNumber |-> Undef, currency |-> Undef, vatInclusiveHint |-> FALSE,
   items |-> NoItems]
EmptyCorrection == [NoCorrection EXCEPT !.given = TRUE]
IsGiven(human) == human.given

----------------------------------------------------------------------------
(* MemoryEngine: recall, apply, decide, learn, run *)

\* One fragment of reasoning: its text and the number it quotes, if any.  A
\* sequence of fragments stands for fragments.join(" | ").
Line(text, n) == [text |-> text, n |-> n]
Lines(texts) == [i \in 1..Len(texts) |-> Line(texts[i], NoNum)]

\* array.find(pred) over the rows that satisfy pred, given as a sequence
First(rows) == IF rows = <<>> THEN NoRow ELSE <<Head(rows)>>

Recall(mem, invoice) ==
  [vendorMemories |-> QueryMemories(mem, "vendor", invoice.vendor, NoNum),
   correctionMemories |-> QueryMemories(mem, "correction", invoice.vendor, NoNum),
   resolutionMemories |-> QueryMemories(mem, "resolution", invoice.vendor, NoNum)]

\* FieldEmpty without the test: the fill overwrites
FieldAlwaysEmpty(normalized, target) == TRUE

\* Whether normalized[target] is falsy, for the three string targets
FieldEmpty(normalized, target) == ~TruthyStr(normalized[target])

\* applyVendorField that fills the field without noting a proposed correction
ApplyVendorFieldSilently(st, recall, opts, key, target) ==
  LET HasKey(m) == m.key = key
      memory == First(SelectSeq(recall.vendorMemories, HasKey))
  IN IF memory # NoRow /\ memory[1].confidence >= opts.minConfidenceToApply
        /\ ~TruthyStr(st.normalized[target])
     THEN [st EXCEPT
             !.normalized = [st.normalized EXCEPT ![target] = memory[1].value],
             !.reasoning = Append(@, Line("Vendor memory (" \o key \o ") filled " \o target,
                                          memory[1].confidence)),
             !.appliedConfidence = Max(@, memory[1].confidence)]
     ELSE st

\* applyVendorField that never fills
ApplyVendorFieldSkipped(st, recall, opts, key, target) == st

\* applyVendorField(key, target) on the state st of apply
ApplyVendorField(st, recall, opts, key, target) ==
  LET HasKey(m) == m.key = key
      memory == First(SelectSeq(recall.vendorMemories, HasKey))
  IN IF memory # NoRow /\ memory[1].confidence >= opts.minConfidenceToApply
        /\ FieldEmpty(st.normalized, target)
     THEN [st EXCEPT
             !.normalized = [st.normalized EXCEPT ![target] = memory[1].value],
             !.proposedCorrections = Append(@, "Applied vendor memory " \o key \o " -> " \o target),
             !.reasoning = Append(@, Line("Vendor memory (" \o key \o ") filled " \o target,
                                          memory[1].confidence)),
             !.appliedConfidence = Max(@, memory[1].confidence)]
     ELSE st

\* The VAT inclusive rule of apply
ApplyVatHint(st, recall, opts) ==
  LET Hint(m) == m.key = "vatInclusiveHint" /\ m.confidence >= opts.minConfidenceToApply
      vatHint == First(SelectSeq(recall.vendorMemories, Hint))
      n == st.normalized
  IN IF vatHint # NoRow /\ n.vatInclusiveHint
     THEN LET st1 == [st EXCEPT
                        !.reasoning = Append(@, Line("VAT inclusive hint recognized",
                                                     vatHint[1].confidence)),
                        !.appliedConfidence = Max(@, vatHint[1].confidence)]
          IN IF TruthyNum(n.totalGross) /\ TruthyNum(n.vatRate) /\ ~TruthyNum(n.totalNet)
             THEN [st1 EXCEPT
                     !.normalized = [n EXCEPT !.totalNet = DivMilli(n.totalGross, One + n.vatRate)],
                     !.proposedCorrections =
                        Append(@, "Computed net from gross using vendor VAT inclusive pattern")]
             ELSE st1
     ELSE st

\* Whether a line item is a freight line: (item.description ?? "").toLowerCase().includes("freight")
IsFreight(item) == LowerIncludes(item.description, "freight")

\* The freight rule of apply.  normalized is a shallow copy of the invoice, so
\* normalized.items is the invoice's own array and item.sku = ... writes to both.
ApplyFreightSku(st, recall, opts) ==
  LET Sku(m) == m.key = "freightSku" /\ m.confidence >= opts.minConfidenceToApply
      freightSku == First(SelectSeq(recall.correctionMemories, Sku))
      list == st.normalized.items.list
      matched == SelectSeq(list, IsFreight)
      mapped == [i \in 1..Len(list) |->
                   IF IsFreight(list[i]) THEN [list[i] EXCEPT !.sku = freightSku[1].value]
                   ELSE list[i]]
  IN IF freightSku # NoRow /\ st.normalized.items.defined
     THEN [st EXCEPT
             !.normalized = [@ EXCEPT !.items = Items(mapped)],
             !.invoice = [@ EXCEPT !.items = Items(mapped)],
             !.reasoning = @ \o [i \in 1..Len(matched) |->
                                   Line("Mapped freight description to SKU using memory",
                                        freightSku[1].confidence)],
             !.proposedCorrections = @ \o [i \in 1..Len(matched) |->
                                             "Mapped freight line to SKU from memory"],
             !.appliedConfidence = IF matched = <<>> THEN @ ELSE Max(@, freightSku[1].confidence)]
     ELSE st

DuplicateKey(invoice) == "duplicate:" \o Str(invoice.vendor) \o "|" \o Str(invoice.invoiceNumber)

\* The duplicate rule of apply
ApplyDuplicate(st, recall, opts, invoice) ==
  LET Dup(m) == m.key = DuplicateKey(invoice)
      duplicateMemory == First(SelectSeq(recall.resolutionMemories, Dup))
  IN IF duplicateMemory # NoRow /\ duplicateMemory[1].confidence >= opts.minConfidenceToApply
     THEN [st EXCEPT
             !.reasoning = Append(@, Line("Potential duplicate detected based on prior resolution",
                                          duplicateMemory[1].confidence)),
             !.proposedCorrections = Append(@, "Flagged as potential duplicate"),
             !.appliedConfidence = Max(@, duplicateMemory[1].confidence)]
     ELSE st

\* The skonto rule of apply without the test against minConfidenceToApply
ApplySkontoUngated(st, recall, opts) ==
  LET Skonto(m) == m.key = "skontoTerms"
      skontoMemory == First(SelectSeq(recall.vendorMemories, Skonto))
  IN IF skontoMemory # NoRow
     THEN [st EXCEPT
             !.reasoning = Append(@, Line("Known skonto terms recorded: " \o skontoMemory[1].value,
                                          skontoMemory[1].confidence)),
             !.appliedConfidence = Max(@, skontoMemory[1].confidence)]
     ELSE st

\* The skonto rule of apply
ApplySkonto(st, recall, opts) ==
  LET Skonto(m) == m.key = "skontoTerms" /\ m.confidence >= opts.minConfidenceToApply
      skontoMemory == First(SelectSeq(recall.vendorMemories, Skonto))
  IN IF skontoMemory # NoRow
     THEN [st EXCEPT
             !.reasoning = Append(@, Line("Known skonto terms recorded: " \o skontoMemory[1].value,
                                          skontoMemory[1].confidence)),
             !.appliedConfidence = Max(@, skontoMemory[1].confidence)]
     ELSE st

\* apply(invoice, recall): normalized, proposedCorrections, reasoning and
\* appliedConfidence, and the caller's invoice object as apply leaves it
Apply(invoice, recall, opts) ==
  LET st0 == { [normalized |-> invoice, invoice |-> invoice, proposedCorrections |-> <<>>,
                reasoning |-> <<>>, appliedConfidence |-> 0] }
      st1 == { ApplyVendorField(st, recall, opts, "serviceDateFromLeistungsdatum", "serviceDate")
               : st \in st0 }
      st2 == { ApplyVendorField(st, recall, opts, "currencyFromRawText", "currency") : st \in st1 }
      st3 == { ApplyVendorField(st, recall, opts, "poDefault", "poNumber") : st \in st2 }
      st4 == { ApplyVatHint(st, recall, opts) : st \in st3 }
      st5 == { ApplyFreightSku(st, recall, opts) : st \in st4 }
      st6 == { ApplyDuplicate(st, recall, opts, invoice) : st \in st5 }
  IN Only({ ApplySkonto(st, recall, opts) : st \in st6 })

\* AutoAccept without the test for proposed corrections
AutoAcceptDespiteCorrections(appliedConfidence, proposedCorrections, threshold) ==
  appliedConfidence >= threshold

\* The test of the two auto-accept branches of decide:
\* appliedConfidence >= threshold && proposedCorrections.length === 0
AutoAccept(appliedConfidence, proposedCorrections, threshold) ==
  appliedConfidence >= threshold /\ Len(proposedCorrections) = 0

\* decide that sends to review whatever is not auto-accepted by a threshold
DecideReviewByDefault(normalized, proposedCorrections, recall, appliedConfidence, opts) ==
  [requiresHumanReview |->
      ~AutoAccept(appliedConfidence, proposedCorrections, opts.minConfidenceToApply),
   confidenceScore |-> IF Len(proposedCorrections) = 0 THEN appliedConfidence
                       ELSE Max(appliedConfidence, opts.minConfidenceToApply),
   reasoning |-> Lines(<<"Standard decision flow">>)]

\* decide with the unapplied-mapping rule moved after the threshold branches
DecideUnappliedLast(normalized, proposedCorrections, recall, appliedConfidence, opts) ==
  LET IsServiceDate(m) == m.key = "serviceDateFromLeistungsdatum"
      unapplied == /\ ~TruthyStr(normalized.serviceDate)
                   /\ SelectSeq(recall.vendorMemories, IsServiceDate) # <<>>
      none == Len(proposedCorrections) = 0
      accept == appliedConfidence >= opts.minConfidenceToApply /\ none
  IN [requiresHumanReview |-> unapplied \/ ~none,
      confidenceScore |-> IF none THEN appliedConfidence
                          ELSE Max(appliedConfidence, opts.minConfidenceToApply),
      reasoning |-> Lines(<<IF accept THEN "auto-accept" ELSE "review">>)]

\* decide(normalized, proposedCorrections, recall, appliedConfidence)
Decide(normalized, proposedCorrections, recall, appliedConfidence, opts) ==
  LET IsServiceDate(m) == m.key = "serviceDateFromLeistungsdatum"
      unapplied == /\ ~TruthyStr(normalized.serviceDate)
                   /\ SelectSeq(recall.vendorMemories, IsServiceDate) # <<>>
      d0 == [requiresHumanReview |-> Len(proposedCorrections) > 0,
             confidenceScore |-> appliedConfidence,
             parts |-> <<>>]
      d1 == IF unapplied
            THEN [d0 EXCEPT !.requiresHumanReview = TRUE,
                            !.parts = Append(@, "Service date missing; vendor memory exists but not applied")]
            ELSE d0
      d2 == IF AutoAccept(appliedConfidence, proposedCorrections, opts.minConfidenceToAutoAccept)
            THEN [d1 EXCEPT !.requiresHumanReview = FALSE,
                            !.confidenceScore = appliedConfidence,
                            !.parts = Append(@, "High confidence and no corrections; auto-accept")]
            ELSE IF AutoAccept(appliedConfidence, proposedCorrections, opts.minConfidenceToApply)
            THEN [d1 EXCEPT !.requiresHumanReview = FALSE,
                            !.parts = Append(@, "Moderate confidence; no corrections; auto-accept")]
            ELSE IF Len(proposedCorrections) > 0
            THEN [d1 EXCEPT !.requiresHumanReview = TRUE,
                            !.confidenceScore = Max(@, opts.minConfidenceToApply),
                            !.parts = Append(@, "Corrections proposed; send to human for confirmation")]
            ELSE d1
  IN [requiresHumanReview |-> d2.requiresHumanReview,
      confidenceScore |-> d2.confidenceScore,
      reasoning |-> Lines(IF d2.parts = <<>> THEN <<"Standard decision flow">> ELSE d2.parts)]

\* reinforce(kind, key, value, confidence, vendor) on the state ls of learn
ReinforceStep(ls, kind, key, value, confidence, vendor, text, t) ==
  Only({ [memories |-> r.memories,
          memoryUpdates |-> Append(ls.memoryUpdates,
                                   [kind |-> kind, key |-> key, value |-> value,
                                    confidence |-> r.record.confidence]),
          reasoning |-> Append(ls.reasoning, Line(text, NoNum))]
         : r \in { UpsertMemory(ls.memories,
                                [kind |-> kind, vendor |-> vendor, key |-> key, value |-> value,
                                 confidence |-> confidence, decayRate |-> NoNum], t) } })

\* The loop of learn over human.items, from the i-th item on
RECURSIVE LearnFreight(_, _, _, _, _)
LearnFreight(ls, items, i, vendor, t) ==
  IF i > Len(items) THEN ls
  ELSE Only({ LearnFreight(ls1, items, i + 1, vendor, t)
              : ls1 \in { IF IsFreight(items[i])
                          THEN ReinforceStep(ls, "correction", "freightSku",
                                             IF items[i].sku = Undef THEN "FREIGHT"
                                             ELSE items[i].sku,
                                             600, vendor,
                                             "Mapped freight description to SKU from human feedback",
                                             t)
                          ELSE ls } })

\* learn(original, normalized, human, requiresHumanReview) at time t: the table
\* afterwards, memoryUpdates and reasoning
Learn(mem, original, normalized, human, requiresHumanReview, t) ==
  LET v == original.vendor
      ls0 == { [memories |-> mem, memoryUpdates |-> <<>>, reasoning |-> <<>>] }
      ls1 == { IF /\ TruthyStr(human.serviceDate)
                  /\ ~TruthyStr(normalized.serviceDate)
                  /\ TruthyStr(original.vendorFields.Leistungsdatum)
               THEN ReinforceStep(ls, "vendor", "serviceDateFromLeistungsdatum", human.serviceDate,
                                  800, v, "Learned mapping Leistungsdatum -> serviceDate", t)
               ELSE ls : ls \in ls0 }
      ls2 == { IF /\ TruthyStr(human.currency)
                  /\ ~TruthyStr(normalized.currency)
                  /\ LowerIncludes(original.rawText, ToLowerCase(human.currency))
               THEN ReinforceStep(ls, "vendor", "currencyFromRawText", human.currency,
                                  600, v, "Learned currency recovery from raw text", t)
               ELSE ls : ls \in ls1 }
      ls3 == { IF human.vatInclusiveHint /\ original.vatInclusiveHint
               THEN ReinforceStep(ls, "vendor", "vatInclusiveHint", "true",
                                  500, v, "Reinforced VAT inclusive handling", t)
               ELSE ls : ls \in ls2 }
      ls4 == { IF TruthyStr(human.poNumber) /\ ~TruthyStr(normalized.poNumber)
               THEN ReinforceStep(ls, "vendor", "poDefault", human.poNumber,
                                  600, v, "Recorded PO match preference for vendor", t)
               ELSE ls : ls \in ls3 }
      ls5 == { IF human.items.defined /\ normalized.items.defined
               THEN LearnFreight(ls, human.items.list, 1, v, t)
               ELSE ls : ls \in ls4 }
      ls6 == { IF LowerIncludes(original.rawText, "skonto")
               THEN ReinforceStep(ls, "vendor", "skontoTerms", "Skonto terms noted",
                                  500, v, "Captured skonto terms as known pattern", t)
               ELSE ls : ls \in ls5 }
      ls7 == { IF requiresHumanReview = FALSE
               THEN ReinforceStep(ls, "resolution", "autoAccept", original.invoiceNumber,
                                  400, v, "Recorded auto-accept resolution", t)
               ELSE ls : ls \in ls6 }
  IN Only({ IF /\ human.invoiceNumber = original.invoiceNumber
               /\ human.vendor = original.vendor
               /\ human.issueDate = original.issueDate
            THEN ReinforceStep(ls, "resolution", DuplicateKey(original), "true",
                               900, v, "Recorded duplicate detection", t)
            ELSE ls : ls \in ls7 })

\* run(invoice, humanCorrection) at time t on the tables mem and aud: the tables
\* afterwards, the PipelineOutput, and the caller's invoice object afterwards
RunEngine(mem, aud, opts, invoice, human, t) ==
  LET Entry(row) == [step |-> row.step, timestamp |-> row.timestamp, details |-> row.details]
      Output(recall, applyResult, decision, learnResult, audEnd) ==
        [memories |-> IF IsGiven(human) THEN learnResult.memories ELSE mem,
         audit |-> audEnd,
         invoice |-> applyResult.invoice,
         recall |-> recall,
         appliedConfidence |-> applyResult.appliedConfidence,
         output |-> [normalizedInvoice |-> applyResult.normalized,
                     proposedCorrections |-> applyResult.proposedCorrections,
                     requiresHumanReview |-> decision.requiresHumanReview,
                     reasoning |-> applyResult.reasoning \o decision.reasoning,
                     confidenceScore |-> decision.confidenceScore,
                     memoryUpdates |-> IF IsGiven(human) THEN learnResult.memoryUpdates ELSE <<>>,
                     auditTrail |-> [i \in 1..(Len(audEnd) - Len(aud)) |->
                                       Entry(audEnd[Len(aud) + i])]]]
      Learned(recall, applyResult, decision, aud3) ==
        Only({ Only({ Output(recall, applyResult, decision, learnResult, audEnd)
                      : audEnd \in { IF IsGiven(human)
                                     THEN AddAudit(aud3, "learn", learnResult.reasoning, t)
                                     ELSE aud3 } })
               : learnResult \in { Learn(mem, applyResult.invoice, applyResult.normalized, human,
                                         decision.requiresHumanReview, t) } })
      Decided(recall, applyResult, aud2) ==
        Only({ Only({ Learned(recall, applyResult, decision, aud3)
                      : aud3 \in { AddAudit(aud2, "decide", decision.reasoning, t) } })
               : decision \in { Decide(applyResult.normalized, applyResult.proposedCorrections,
                                       recall, applyResult.appliedConfidence, opts) } })
      Applied(recall, aud1) ==
        Only({ Only({ Decided(recall, applyResult, aud2)
                      : aud2 \in { AddAudit(aud1, "apply", applyResult.reasoning, t) } })
               : applyResult \in { Apply(invoice, recall, opts) } })
  IN Only({ Only({ Applied(recall, aud1)
                   : aud1 \in { AddAudit(aud, "recall",
                                         << Line("vendor memories", Len(recall.vendorMemories)),
                                            Line("corrections", Len(recall.correctionMemories)),
                                            Line("resolutions", Len(recall.resolutionMemories)) >>,
                                         t) } })
            : recall \in { Recall(mem, invoice) } })

----------------------------------------------------------------------------
(* One engine on a fresh database, fed invoices one at a time (as demo.ts does) *)

StrictOptions == [minConfidenceToApply |-> 850, minConfidenceToAutoAccept |-> 900]

FreightItem(sku) == [sku |-> sku, description |-> "Freight charge"]

\* Supplier GmbH: Leistungsdatum given, service date missing, skonto in the text
InvoiceA ==
  [BlankInvoice("Supplier GmbH", "INV-1") EXCEPT
     !.issueDate = "2024-01-05", !.rawText = "Betrag 119.00 EUR, 2% Skonto",
     !.vendorFields = [Leistungsdatum |-> "2024-01-10"]]

\* Supplier GmbH: the same invoice with every fillable field already populated
InvoiceFilled ==
  [InvoiceA EXCEPT !.serviceDate = "2024-01-02", !.currency = "USD", !.poNumber = "PO-B-7"]

\* Parts AG: VAT inclusive gross total, currency only in the text, a freight line
InvoiceParts ==
  [BlankInvoice("Parts AG", "INV-2") EXCEPT
     !.issueDate = "2024-02-01", !.totalGross = 11900, !.vatRate = 190,
     !.vatInclusiveHint = TRUE, !.rawText = "Total 119.00 EUR",
     !.items = Items(<<FreightItem(Undef)>>)]

\* Supplier GmbH: a second invoice like InvoiceA, with a freight line and no text
InvoiceA2 ==
  [BlankInvoice("Supplier GmbH", "INV-2") EXCEPT
     !.issueDate = "2024-02-01", !.items = Items(<<FreightItem(Undef)>>),
     !.vendorFields = [Leistungsdatum |-> "2024-02-03"]]

\* An invoice whose vendor is missing
InvoiceNoVendor ==
  [BlankInvoice(Undef, "INV-1") EXCEPT
     !.issueDate = "2024-01-05", !.vendorFields = [Leistungsdatum |-> "2024-01-10"]]

Invoices == {InvoiceA, InvoiceA2, InvoiceFilled, InvoiceParts, InvoiceNoVendor}

Corrections ==
  { NoCorrection,
    EmptyCorrection,
    [EmptyCorrection EXCEPT !.serviceDate = "2024-01-10"],
    [EmptyCorrection EXCEPT !.vendor = "Supplier GmbH", !.invoiceNumber = "INV-1",
                            !.issueDate = "2024-01-05"],
    [EmptyCorrection EXCEPT !.currency = "EUR", !.poNumber = "PO-A-051",
                            !.vatInclusiveHint = TRUE, !.items = Items(<<FreightItem("FREIGHT")>>)] }

MaxRuns == 3

\* The number of runs so far: each run adds one recall row to the audit table
Recalls(row) == row.step = "recall"
Runs == Len(SelectSeq(audit, Recalls))

Init ==
  /\ memories = <<>>
  /\ audit = <<>>
  /\ now = 0
  /\ options \in {DefaultOptions, StrictOptions}
  /\ call = NoCall
  /\ result = NoResult

\* engine.run(invoice, humanCorrection)
Run ==
  /\ Runs < MaxRuns
  /\ \E invoice \in Invoices, human \in Corrections :
       \E r \in {RunEngine(memories, audit, options, invoice, human, now)} :
          /\ memories' = r.memories
          /\ audit' = r.audit
          /\ call' = [op |-> "run", invoice |-> invoice, human |-> human, before |-> memories,
                      prev |-> IF call.op = "run"
                               THEN [op |-> "run", invoice |-> call.invoice, human |-> call.human]
                               ELSE NoCall]
          /\ result' = [kind |-> "output", output |-> r.output, invoice |-> r.invoice,
                        recall |-> r.recall, appliedConfidence |-> r.appliedConfidence]
  /\ UNCHANGED <<now, options>>

Next == Run

Spec == Init /\ [][Next]_vars

----------------------------------------------------------------------------
(* The store on its own: upsertMemory, decayMemories and queryMemories called
   directly, with the wall clock moving between the calls *)

StoreKinds == {"vendor", "resolution"}
StoreVendors == {Undef, "", "Parts AG"}
QueryVendors == {Undef, "", "Parts AG", "Supplier GmbH"}
StoreKeys == {"poDefault"}
StoreValues == {"PO-A-051"}
StoreConfidences == {5, 1000, 1500}
StoreDecayRates == {NoNum}

UpsertParams ==
  [kind : StoreKinds, vendor : StoreVendors, key : StoreKeys, value : StoreValues,
   confidence : StoreConfidences, decayRate : StoreDecayRates]

RECURSIVE TotalHits(_)
TotalHits(mem) == IF mem = <<>> THEN 0 ELSE Head(mem).hits + TotalHits(Tail(mem))

StoreInit ==
  /\ memories = <<>>
  /\ audit = <<>>
  /\ now = 0
  /\ options = DefaultOptions
  /\ call = NoCall
  /\ result = NoResult

\* A caller runs store.upsertMemory(params)
Upsert(params) ==
  /\ TotalHits(memories) < MaxUpserts
  /\ \E r \in {UpsertMemory(memories, params, now)} :
        /\ memories' = r.memories
        /\ call' = [op |-> "upsertMemory", params |-> params, before |-> memories]
        /\ result' = [kind |-> "record", record |-> r.record]
  /\ UNCHANGED <<audit, now, options>>

StoreUpsert == \E params \in UpsertParams : Upsert(params)

\* A caller runs store.queryMemories({kind, vendor, minConfidence})
StoreQuery ==
  \E kind \in {Undef, "vendor"}, vendor \in QueryVendors, minConfidence \in {NoNum, 1000} :
    /\ call.op = "upsertMemory"
    /\ call' = [op |-> "queryMemories", kind |-> kind, vendor |-> vendor,
                minConfidence |-> minConfidence]
    /\ result' = [kind |-> "rows", rows |-> QueryMemories(memories, kind, vendor, minConfidence)]
    /\ UNCHANGED <<memories, audit, now, options>>

StoreNext == StoreUpsert \/ StoreQuery

SpecStore == StoreInit /\ [][StoreNext]_vars

----------------------------------------------------------------------------
(* The store over time: records are written, the wall clock moves, and
   decayMemories runs (as it does whenever an engine is constructed) *)

DecayUpsertParams ==
  [kind : {"vendor"}, vendor : {Undef, "Parts AG"}, key : StoreKeys, value : StoreValues,
   confidence : {400, 1000}, decayRate : {NoNum, 500}]

DecayUpsert == \E params \in DecayUpsertParams : Upsert(params)

\* A caller runs store.decayMemories() (here: after a write, not twice in a row)
StoreDecay ==
  /\ call.op = "upsertMemory"
  /\ memories' = DecayMemories(memories, now)
  /\ call' = [op |-> "decayMemories", before |-> memories, at |-> now]
  /\ result' = NoResult
  /\ UNCHANGED <<audit, now, options>>

\* Time passes: Date.now() grows
Tick ==
  /\ now < MaxDay
  /\ now' = now + 1
  /\ UNCHANGED <<memories, audit, options, call, result>>

\* The wall clock is set back: Date.now() is not monotonic
ClockSetBack ==
  /\ now > 0
  /\ now' \in 0..(now - 1)
  /\ UNCHANGED <<memories, audit, options, call, result>>

DecayNext == DecayUpsert \/ StoreDecay \/ Tick \/ ClockSetBack

SpecDecay == StoreInit /\ [][DecayNext]_vars

----------------------------------------------------------------------------
(* Two callers on one database (two connections to the file at dbPath), each
   running upsertMemory on the same triple.  upsertMemory opens no transaction:
   its SELECT and its UPDATE or INSERT are two statements, each committed on its
   own, and the other caller's statements can run between them. *)

MaxCalls == 3

Callers == {1, 2}

Idle == [pc |-> "idle"]

\* The parameters of every call: one triple, with or without vendor
CallerParams(vendor, confidence) ==
  [kind |-> "vendor", vendor |-> vendor, key |-> "poDefault", value |-> "PO-A-051",
   confidence |-> confidence, decayRate |-> NoNum]

ConcurrentInit ==
  /\ memories = <<>>
  /\ audit = <<>>
  /\ now = 0
  /\ options = DefaultOptions
  /\ call \in [op : {"callers"}, vendor : {Undef, "Parts AG"}, callers : {[c \in Callers |-> Idle]},
               started : {0}, returned : {0}]
  /\ result = [kind |-> "outcomes", threw |-> 0]

\* Caller c enters upsertMemory and runs its getMemory (line 53)
Lookup(c) ==
  /\ call.callers[c].pc = "idle"
  /\ call.started < MaxCalls
  /\ \E confidence \in {200, 400} :
       \E params \in {CallerParams(call.vendor, confidence)} :
         call' = [call EXCEPT
                    !.callers[c] = [pc |-> "found", params |-> params,
                                    existing |-> GetMemory(memories, params.kind, params.vendor,
                                                           params.key)],
                    !.started = @ + 1]
  /\ UNCHANGED <<memories, audit, now, options, result>>

\* Caller c runs its UPDATE or INSERT (lines 54-66) and returns or throws
Write(c) ==
  /\ call.callers[c].pc = "found"
  /\ \E r \in {UpsertWrite(memories, call.callers[c].params, call.callers[c].existing, now)} :
        /\ memories' = r.memories
        /\ call' = [call EXCEPT !.callers[c] = Idle,
                                 !.returned = IF r.threw THEN @ ELSE @ + 1]
        /\ result' = [result EXCEPT !.threw = IF r.threw THEN @ + 1 ELSE @]
  /\ UNCHANGED <<audit, now, options>>

ConcurrentNext == \E c \in Callers : Lookup(c) \/ Write(c)

SpecConcurrent == ConcurrentInit /\ [][ConcurrentNext]_vars

----------------------------------------------------------------------------
(* decide on its own: a pure function of its arguments and the thresholds *)

MaxCorrections == 2

\* A row of the memories table
MemoryRow(id, kind, vendor, key, value, confidence) ==
  [id |-> id, kind |-> kind, vendor |-> vendor, key |-> key, value |-> value,
   confidence |-> confidence, hits |-> 1, decayRate |-> DefaultDecayRate,
   createdAt |-> 0, lastUpdated |-> 0]

LenientOptions == [minConfidenceToApply |-> 300, minConfidenceToAutoAccept |-> 750]

OptionSets == {DefaultOptions, StrictOptions, LenientOptions}

DecideConfidences == {0, 300, 450, 699, 700, 750, 1000}

DecideInvoices ==
  {[InvoiceA EXCEPT !.serviceDate = d] : d \in {Undef, "", "2024-01-02"}}

\* The lists apply can return: up to MaxCorrections notes
DecideCorrections ==
  {[i \in 1..n |-> "Mapped freight line to SKU from memory"] : n \in 0..MaxCorrections}

DecideRecalls ==
  {[vendorMemories |-> <<>>, correctionMemories |-> <<>>, resolutionMemories |-> <<>>]}
  \cup
  {[vendorMemories |-> <<MemoryRow(1, "vendor", "Supplier GmbH",
                                   "serviceDateFromLeistungsdatum", "2024-01-10", c)>>,
    correctionMemories |-> <<>>, resolutionMemories |-> <<>>] : c \in {300, 800}}

DecideInit ==
  /\ memories = <<>>
  /\ audit = <<>>
  /\ now = 0
  /\ options \in OptionSets
  /\ call \in [op : {"decide arguments"}, normalized : DecideInvoices,
               proposedCorrections : DecideCorrections, recall : DecideRecalls,
               appliedConfidence : DecideConfidences]
  /\ result = NoResult

\* this.decide(normalized, proposedCorrections, recall, appliedConfidence)
DecideCall ==
  /\ call.op = "decide arguments"
  /\ call' = [call EXCEPT !.op = "decide"]
  /\ result' = [kind |-> "decision",
                decision |-> Decide(call.normalized, call.proposedCorrections, call.recall,
                                    call.appliedConfidence, options)]
  /\ UNCHANGED <<memories, audit, now, options>>

SpecDecide == DecideInit /\ [][DecideCall]_vars

----------------------------------------------------------------------------
(* apply on its own: a pure function of the invoice, the recalled memories and
   minConfidenceToApply *)

ApplyConfidences == {300, 450, 1000}

\* Supplier GmbH invoices with each fillable field empty or populated
ApplyInvoices ==
  {[InvoiceA EXCEPT !.serviceDate = d, !.currency = c, !.poNumber = po] :
     d \in {Undef, "2024-01-02"}, c \in {Undef, "", "USD"}, po \in {Undef, "PO-B-7"}}

\* A table with the given confidence (NoNum: no row) for each field-fill memory
FillTable(sd, cur, po) ==
  LET Keep(r) == r.confidence # NoNum
      rows == SelectSeq(
        << MemoryRow(1, "vendor", "Supplier GmbH", "serviceDateFromLeistungsdatum", "2024-01-10", sd),
           MemoryRow(2, "vendor", "Supplier GmbH", "currencyFromRawText", "EUR", cur),
           MemoryRow(3, "vendor", Null, "poDefault", "PO-A-051", po) >>, Keep)
  IN [i \in 1..Len(rows) |-> [rows[i] EXCEPT !.id = i]]

ApplyTables ==
  {FillTable(sd, cur, po) : sd \in ApplyConfidences \cup {NoNum},
                            cur \in ApplyConfidences \cup {NoNum},
                            po \in ApplyConfidences \cup {NoNum}}

ApplyInit ==
  /\ memories \in ApplyTables
  /\ audit = <<>>
  /\ now = 0
  /\ options \in {DefaultOptions, StrictOptions}
  /\ call \in [op : {"apply arguments"}, invoice : ApplyInvoices]
  /\ result = NoResult

\* this.apply(invoice, this.recall(invoice))
ApplyCall ==
  /\ call.op = "apply arguments"
  /\ call' = [call EXCEPT !.op = "apply"]
  /\ \E recall \in {Recall(memories, call.invoice)} :
       \E r \in {Apply(call.invoice, recall, options)} :
          result' = [kind |-> "applied", normalized |-> r.normalized, invoice |-> r.invoice,
                     proposedCorrections |-> r.proposedCorrections, reasoning |-> r.reasoning,
                     appliedConfidence |-> r.appliedConfidence, recall |-> recall]
  /\ UNCHANGED <<memories, audit, now, options>>

SpecApply == ApplyInit /\ [][ApplyCall]_vars

----------------------------------------------------------------------------
(* Claims about the engine, checked under Spec *)

\* The rows of a table, as a set
RowsOf(mem) == {mem[i] : i \in 1..Len(mem)}
InSeq(x, seq) == \E i \in 1..Len(seq) : seq[i] = x

\* A correction that sets serviceDate and nothing else
OnlyServiceDate(human) ==
  /\ TruthyStr(human.serviceDate)
  /\ human = [EmptyCorrection EXCEPT !.serviceDate = human.serviceDate]

\* An invoice that gives Leistungsdatum and no service date
NeedsServiceDate(invoice) ==
  TruthyStr(invoice.vendorFields.Leistungsdatum) /\ ~TruthyStr(invoice.serviceDate)

\* The second run of scenario A has just returned: the engine (default
\* thresholds) started from an empty store, its first run was given an invoice
\* of vendor V with Leistungsdatum and no service date together with the
\* correction {serviceDate}, and its second run an invoice of V of the same shape
ScenarioASecondRun ==
  /\ options = DefaultOptions
  /\ call.op = "run" /\ Runs = 2 /\ call.prev.op = "run"
  /\ NeedsServiceDate(call.prev.invoice) /\ OnlyServiceDate(call.prev.human)
  /\ call.invoice.vendor = call.prev.invoice.vendor
  /\ NeedsServiceDate(call.invoice)

ServiceDateFilledAt800 ==
  /\ result.output.normalizedInvoice.serviceDate = call.prev.human.serviceDate
  /\ result.appliedConfidence = 800
  /\ result.output.confidenceScore = 800

\* C1 as stated: the second run of scenario A has serviceDate filled from memory,
\* appliedConfidence and confidenceScore 0.8, and is auto-accepted with zero
\* proposed corrections.
C1_SecondRunAutoAccepted ==
  ScenarioASecondRun =>
    /\ ServiceDateFilledAt800
    /\ result.output.requiresHumanReview = FALSE
    /\ result.output.proposedCorrections = <<>>

\* C1 as amended: the second run of scenario A has serviceDate filled from memory,
\* appliedConfidence and confidenceScore 0.8, and is sent to human review with
\* exactly one proposed correction, the fill itself.
C1_SecondRunFilledAndReviewed ==
  ScenarioASecondRun =>
    /\ ServiceDateFilledAt800
    /\ result.output.requiresHumanReview = TRUE
    /\ result.output.proposedCorrections =
         <<"Applied vendor memory serviceDateFromLeistungsdatum -> serviceDate">>

C1_Witness ==
  /\ ScenarioASecondRun
  /\ call.invoice = InvoiceA2
  /\ result.output.normalizedInvoice.serviceDate = "2024-01-10"
  /\ result.output.requiresHumanReview

\* The correction of a run confirms the invoice's identity
ConfirmsIdentity(invoice, human) ==
  /\ IsGiven(human)
  /\ human.invoiceNumber = invoice.invoiceNumber
  /\ human.vendor = invoice.vendor
  /\ human.issueDate = invoice.issueDate

\* The resolution memory of an invoice's duplicate key, scoped to its vendor
IsDuplicateRow(row, invoice) ==
  /\ row.kind = "resolution"
  /\ row.key = DuplicateKey(invoice)
  /\ row.vendor = OrNull(invoice.vendor)

\* C2: a run whose correction has the invoice's vendor, invoiceNumber and
\* issueDate leaves a resolution memory keyed duplicate:<vendor>|<invoiceNumber>,
\* at confidence 0.9 when this run created it (never below 0.9 afterwards: the
\* memory stays, and a later learning only reinforces it); and under the default
\* thresholds every run of an invoice whose duplicate memory is in the store gets
\* the potential-duplicate correction and requiresHumanReview = true.
C2_DuplicateLearnedAndFlagged ==
  call.op = "run" =>
    /\ ConfirmsIdentity(call.invoice, call.human) =>
         \E row \in RowsOf(memories) :
            /\ IsDuplicateRow(row, call.invoice)
            /\ row.value = "true"
            /\ row.confidence >= 900 /\ row.confidence <= One
            /\ (~\E old \in RowsOf(call.before) : IsDuplicateRow(old, call.invoice))
                  => row.confidence = 900 /\ row.hits = 1
            /\ \E i \in 1..Len(result.output.memoryUpdates) :
                  /\ result.output.memoryUpdates[i].kind = "resolution"
                  /\ result.output.memoryUpdates[i].key = DuplicateKey(call.invoice)
                  /\ result.output.memoryUpdates[i].confidence = row.confidence
    /\ \A old \in RowsOf(call.before) :
         old.kind = "resolution" /\ old.key # "autoAccept" =>
           \E row \in RowsOf(memories) :
              /\ row.id = old.id /\ row.kind = old.kind /\ row.key = old.key
              /\ row.vendor = old.vendor /\ row.confidence >= old.confidence
    /\ (options = DefaultOptions
        /\ \E old \in RowsOf(call.before) : IsDuplicateRow(old, call.invoice)) =>
         /\ InSeq("Flagged as potential duplicate", result.output.proposedCorrections)
         /\ result.output.requiresHumanReview = TRUE

\* A later run of an invoice whose duplicate memory an earlier run recorded
C2_Witness ==
  /\ options = DefaultOptions
  /\ call.op = "run" /\ call.prev.op = "run"
  /\ ConfirmsIdentity(call.prev.invoice, call.prev.human)
  /\ call.invoice.vendor = call.prev.invoice.vendor
  /\ call.invoice.invoiceNumber = call.prev.invoice.invoiceNumber
  /\ ~IsGiven(call.human)
  /\ \E old \in RowsOf(call.before) : IsDuplicateRow(old, call.invoice) /\ old.confidence = 900
  /\ InSeq("Flagged as potential duplicate", result.output.proposedCorrections)
  /\ result.output.requiresHumanReview

\* C5: whenever the normalized invoice's serviceDate is still empty and the
\* recalled vendor memories hold a serviceDateFromLeistungsdatum memory, the run
\* requires human review.
C5_UnappliedMappingForcesReview ==
  (/\ call.op = "run"
   /\ ~TruthyStr(result.output.normalizedInvoice.serviceDate)
   /\ \E m \in RowsOf(result.recall.vendorMemories) : m.key = "serviceDateFromLeistungsdatum")
  => result.output.requiresHumanReview = TRUE

\* C13: a run on an invoice whose vendor or invoiceNumber is missing ends in an
\* error result: nothing is recalled for it (no memories of other vendors) and
\* no memory record is written.
C13_MalformedRejected ==
  (/\ call.op = "run"
   /\ ~TruthyStr(call.invoice.vendor) \/ ~TruthyStr(call.invoice.invoiceNumber))
  => /\ result.kind = "error"
     /\ memories = call.before

\* What one run does to the audit table and returns as its auditTrail
AuditStep ==
  LET n == Len(audit)
      added == SubSeq(audit', n + 1, Len(audit'))
      trail == result'.output.auditTrail
  IN /\ Len(audit') >= n
     /\ SubSeq(audit', 1, n) = audit
     /\ [i \in 1..Len(added) |-> added[i].step] =
          (IF IsGiven(call'.human) THEN <<"recall", "apply", "decide", "learn">>
           ELSE <<"recall", "apply", "decide">>)
     /\ Len(trail) = Len(added)
     /\ \A i \in 1..Len(added) :
           trail[i].step = added[i].step /\ trail[i].details = added[i].details

\* C14: every run appends to the audit table exactly the rows recall, apply,
\* decide, and then learn if and only if a human correction was supplied, in
\* that order; the rows written before stay as they were; and the auditTrail the
\* run returns lists the same steps and details in the same order.
C14_AuditTrailOrder == [][AuditStep]_vars

\* A run with a correction after a run without: seven rows, the last one learn
C14_Witness ==
  /\ call.op = "run" /\ IsGiven(call.human)
  /\ call.prev.op = "run" /\ ~IsGiven(call.prev.human)
  /\ Len(audit) = 7
  /\ audit[4].step = "recall" /\ audit[7].step = "learn"
  /\ Len(result.output.auditTrail) = 4
  /\ result.output.auditTrail[4].step = "learn"

\* The table without the memories below minConfidenceToApply
WithoutWeak(mem, opts) ==
  LET Strong(r) == r.confidence >= opts.minConfidenceToApply
  IN SelectSeq(mem, Strong)

\* The four fields the same run returns on another table
OutcomeOn(mem, invoice, opts) ==
  Only({ Only({ Only({ [normalizedInvoice |-> a.normalized,
                        proposedCorrections |-> a.proposedCorrections,
                        requiresHumanReview |-> d.requiresHumanReview,
                        confidenceScore |-> d.confidenceScore]
                      : d \in { Decide(a.normalized, a.proposedCorrections, recall,
                                       a.appliedConfidence, opts) } })
               : a \in { Apply(invoice, recall, opts) } })
         : recall \in { Recall(mem, invoice) } })

\* A service-date memory below the threshold is recalled and the service date
\* is still empty after apply
WeakServiceDateRecalled ==
  /\ ~TruthyStr(result.output.normalizedInvoice.serviceDate)
  /\ \E m \in RowsOf(result.recall.vendorMemories) :
        /\ m.key = "serviceDateFromLeistungsdatum"
        /\ m.confidence < options.minConfidenceToApply

C16_RawInvoiceUnchanged ==
  call.op = "run" => result.invoice = call.invoice

\* C17: on an empty store, a run of an invoice with vendorFields.Leistungsdatum
\* set and no serviceDate leaves serviceDate unset and returns no proposed
\* corrections and requiresHumanReview = false; when that run is given the
\* correction {serviceDate}, learn creates the vendor memory
\* serviceDateFromLeistungsdatum of the invoice's vendor with that value,
\* confidence 0.8 and hits 1.
C17_FirstRunLearnsServiceDate ==
  (call.op = "run" /\ call.before = <<>> /\ NeedsServiceDate(call.invoice)) =>
    /\ ~TruthyStr(result.output.normalizedInvoice.serviceDate)
    /\ result.output.proposedCorrections = <<>>
    /\ result.output.requiresHumanReview = FALSE
    /\ OnlyServiceDate(call.human) =>
          \E i \in 1..Len(memories) :
            /\ memories[i].kind = "vendor"
            /\ memories[i].key = "serviceDateFromLeistungsdatum"
            /\ memories[i].vendor = OrNull(call.invoice.vendor)
            /\ memories[i].value = call.human.serviceDate
            /\ memories[i].confidence = 800
            /\ memories[i].hits = 1
            /\ \A j \in 1..Len(memories) :
                  memories[j].key = "serviceDateFromLeistungsdatum" => j = i

\* The first run of the demo's scenario: Supplier GmbH with the correction
C17_Witness ==
  /\ call.op = "run" /\ call.before = <<>> /\ Runs = 1
  /\ call.invoice = InvoiceA
  /\ call.human = [EmptyCorrection EXCEPT !.serviceDate = "2024-01-10"]
  /\ result.output.requiresHumanReview = FALSE
  /\ \E row \in RowsOf(memories) :
        row.key = "serviceDateFromLeistungsdatum" /\ row.vendor = "Supplier GmbH"
        /\ row.confidence = 800 /\ row.hits = 1

\* C19: in every run, requiresHumanReview = false implies that
\* proposedCorrections is empty and the normalized invoice equals the raw input
\* invoice (nothing filled, computed, rewritten or flagged): memories can raise
\* the confidenceScore of an auto-accepted run but never alter its data.
C19_AutoAcceptOnlyUnchanged ==
  (call.op = "run" /\ result.output.requiresHumanReview = FALSE) =>
    /\ result.output.proposedCorrections = <<>>
    /\ result.output.normalizedInvoice = call.invoice
    /\ result.invoice = call.invoice

\* An auto-accepted run whose confidenceScore a recalled memory raised
C19_Witness ==
  /\ call.op = "run"
  /\ result.output.requiresHumanReview = FALSE
  /\ result.output.confidenceScore >= options.minConfidenceToApply
  /\ result.recall.vendorMemories # <<>>
  /\ result.output.normalizedInvoice = call.invoice

\* How many rules of learn fired in the last run for the triple of a row: the
\* memoryUpdates of the row's kind and key, when the row is of the run's vendor
Firings(row) ==
  IF row.vendor = OrNull(call.invoice.vendor)
  THEN Cardinality({ k \in 1..Len(result.output.memoryUpdates) :
                       /\ result.output.memoryUpdates[k].kind = row.kind
                       /\ result.output.memoryUpdates[k].key = row.key })
  ELSE 0

\* C20: over the runs of one engine that started from an empty store, every
\* memory record's confidence never decreases from one run to the next and lies
\* in [0.4, 1], and its hits count is the number of times a rule of learn fired
\* for its triple (each run adds its firings to the count; the store starts empty).
C20_EngineConfidenceMonotone ==
  call.op = "run" =>
    /\ Len(memories) >= Len(call.before)
    /\ \A i \in 1..Len(call.before) :
          /\ memories[i].id = call.before[i].id
          /\ memories[i].kind = call.before[i].kind
          /\ memories[i].vendor = call.before[i].vendor
          /\ memories[i].key = call.before[i].key
          /\ memories[i].confidence >= call.before[i].confidence
    /\ \A i \in 1..Len(memories) :
          /\ memories[i].confidence >= 400 /\ memories[i].confidence <= One
          /\ memories[i].hits =
               (IF i <= Len(call.before) THEN call.before[i].hits ELSE 0) + Firings(memories[i])
          /\ memories[i].hits >= 1

\* A run that reinforced a record of an earlier run
C20_Witness ==
  /\ call.op = "run"
  /\ \E i \in 1..Len(call.before) :
        /\ memories[i].hits = call.before[i].hits + 1
        /\ memories[i].confidence > call.before[i].confidence
        /\ memories[i].confidence < One

----------------------------------------------------------------------------
(* Claims about decide, checked under SpecDecide *)

\* C3: for every input to decide with a non-empty proposedCorrections list,
\* decide returns requiresHumanReview = true, whatever appliedConfidence, the
\* thresholds and the recalled memories are.
C3_CorrectionForcesReview ==
  (call.op = "decide" /\ Len(call.proposedCorrections) > 0)
  => result.decision.requiresHumanReview = TRUE

\* Corrections proposed at a confidence above the auto-accept threshold
C3_Witness ==
  /\ call.op = "decide"
  /\ Len(call.proposedCorrections) > 0
  /\ call.appliedConfidence >= options.minConfidenceToAutoAccept
  /\ result.decision.requiresHumanReview

\* C4: whenever appliedConfidence >= minConfidenceToAutoAccept and there are no
\* proposed corrections, decide returns requiresHumanReview = false with
\* confidenceScore = appliedConfidence.
C4_AutoAcceptThreshold ==
  (/\ call.op = "decide"
   /\ call.appliedConfidence >= options.minConfidenceToAutoAccept
   /\ call.proposedCorrections = <<>>)
  => /\ result.decision.requiresHumanReview = FALSE
     /\ result.decision.confidenceScore = call.appliedConfidence

\* The example of the claim: 0.75 against 0.7, no corrections
C4_Witness ==
  /\ call.op = "decide"
  /\ call.appliedConfidence = 750 /\ options.minConfidenceToAutoAccept = 700
  /\ call.proposedCorrections = <<>>
  /\ result.decision.requiresHumanReview = FALSE
  /\ result.decision.confidenceScore = 750

----------------------------------------------------------------------------
(* Claims about apply, checked under SpecApply *)

FillRules ==
  { [key |-> "serviceDateFromLeistungsdatum", target |-> "serviceDate"],
    [key |-> "currencyFromRawText", target |-> "currency"],
    [key |-> "poDefault", target |-> "poNumber"] }

FillNote(rule) == "Applied vendor memory " \o rule.key \o " -> " \o rule.target

\* C9: for each field-fill rule, if the invoice already has the rule's field
\* populated, apply leaves the field's value unchanged and adds no proposed
\* correction for it, for every confidence of the vendor memory.
C9_NoOpFill ==
  call.op = "apply" =>
    \A rule \in FillRules :
      TruthyStr(call.invoice[rule.target]) =>
        /\ result.normalized[rule.target] = call.invoice[rule.target]
        /\ ~InSeq(FillNote(rule), result.proposedCorrections)

\* A populated service date, with a service-date memory above the threshold recalled
C9_Witness ==
  /\ call.op = "apply"
  /\ call.invoice.serviceDate = "2024-01-02"
  /\ \E m \in RowsOf(result.recall.vendorMemories) :
        /\ m.key = "serviceDateFromLeistungsdatum"
        /\ m.confidence >= options.minConfidenceToApply
  /\ result.normalized.serviceDate = "2024-01-02"
  /\ InSeq(FillNote([key |-> "poDefault", target |-> "poNumber"]), result.proposedCorrections)

----------------------------------------------------------------------------
(* Claims about the store, checked under SpecStore and SpecDecay *)

\* The record of the triple an upsertMemory call names
SameTriple(row, params) ==
  row.kind = params.kind /\ row.key = params.key /\ row.vendor = OrNull(params.vendor)

\* C6: for any existing (kind, vendor, key) record, an upsertMemory call on that
\* triple with incoming confidence c > 0 never leaves the record's confidence
\* below its value before the call.
C6_ReinforcementNeverLowers ==
  (call.op = "upsertMemory" /\ call.params.confidence > 0) =>
    \A old \in RowsOf(call.before) :
      SameTriple(old, call.params) =>
        /\ result.record.confidence >= old.confidence
        /\ \A row \in RowsOf(memories) : row.id = old.id => row.confidence >= old.confidence

\* C7: after any sequence of upsertMemory calls with confidence c > 0, every
\* stored record's confidence, and the confidence of the record upsertMemory
\* returned, is at most 1.0 and at least 0.
C7_ConfidenceWithinUnit ==
  /\ \A row \in RowsOf(memories) : row.confidence >= 0 /\ row.confidence <= One
  /\ result.kind = "record" => result.record.confidence >= 0 /\ result.record.confidence <= One

\* C8: after decayMemories(), every record's confidence is at most its confidence
\* before the call and at least 0.
C8_DecayBounded ==
  call.op = "decayMemories" =>
    \A i \in 1..Len(memories) :
      memories[i].confidence <= call.before[i].confidence /\ memories[i].confidence >= 0

\* C11: after any sequence of upsertMemory calls from a single caller, no two
\* memory records share (kind, vendor, key), an absent vendor being equal only
\* to an absent vendor.
C11_TripleUnique ==
  \A i, j \in 1..Len(memories) :
    (/\ memories[i].kind = memories[j].kind
     /\ memories[i].vendor = memories[j].vendor
     /\ memories[i].key = memories[j].key) => i = j

\* A second upsertMemory on a triple without vendor found the record of the first
C11_Witness ==
  /\ call.op = "upsertMemory" /\ call.params.vendor = Undef
  /\ \E old \in RowsOf(call.before) : SameTriple(old, call.params)
  /\ \E row \in RowsOf(memories) : SameTriple(row, call.params) /\ row.hits = 2
  /\ Len(memories) = Len(call.before)

\* C18: upsertMemory(kind, V, key) reinforces only the record whose vendor is
\* exactly V (absent matching only absent) and otherwise inserts a new record
\* with hits = 1, also when an unscoped record with that kind and key exists;
\* every other record is left unchanged and no record is removed.
C18_ExactTripleUpsert ==
  call.op = "upsertMemory" =>
    LET HasExact == \E old \in RowsOf(call.before) : SameTriple(old, call.params)
    IN /\ Len(memories) = Len(call.before) + (IF HasExact THEN 0 ELSE 1)
       /\ \A i \in 1..Len(call.before) :
             IF SameTriple(call.before[i], call.params)
             THEN /\ memories[i].id = call.before[i].id
                  /\ SameTriple(memories[i], call.params)
                  /\ memories[i].hits = call.before[i].hits + 1
                  /\ result.record.id = memories[i].id
             ELSE memories[i] = call.before[i]
       /\ ~HasExact =>
             /\ SameTriple(memories[Len(memories)], call.params)
             /\ memories[Len(memories)].hits = 1
             /\ result.record.hits = 1
             /\ result.record.id = memories[Len(memories)].id

\* upsertMemory for a vendor when only the unscoped record of the kind and key
\* exists: a second record is inserted and the unscoped one is untouched
C18_Witness ==
  /\ call.op = "upsertMemory" /\ call.params.vendor = "Parts AG"
  /\ Len(call.before) = 1
  /\ call.before[1].vendor = Null
  /\ call.before[1].kind = call.params.kind /\ call.before[1].key = call.params.key
  /\ Len(memories) = 2
  /\ memories[1] = call.before[1]
  /\ memories[2].vendor = "Parts AG" /\ memories[2].hits = 1

\* C12: when two callers run upsertMemory on one triple with their lookup and
\* write steps interleaved in any order, then once every call has ended no call
\* has failed, the store holds exactly one record for the triple, and its hits
\* count is the number of calls (no reinforcement is lost), with or without vendor.
C12_AtomicUpsert ==
  (call.op = "callers" /\ \A c \in Callers : call.callers[c].pc = "idle") =>
    /\ result.threw = 0
    /\ call.started > 0 => Len(memories) = 1 /\ memories[1].hits = call.started

\* C10: queryMemories called with a vendor argument returns only records whose
\* vendor equals that argument or is unset.
C10_VendorScoping ==
  (call.op = "queryMemories" /\ call.vendor # Undef) =>
    \A row \in RowsOf(result.rows) : row.vendor = Null \/ row.vendor = call.vendor

----------------------------------------------------------------------------
(* Claims about the field-fill memories over the runs of one engine, checked
   under Spec *)

\* A memory of the rule's key is recalled at or above minConfidenceToApply
RecalledAtThreshold(rule) ==
  \E m \in RowsOf(result.recall.vendorMemories) :
    m.key = rule.key /\ m.confidence >= options.minConfidenceToApply

\* C21: in any run where the recalled serviceDateFromLeistungsdatum,
\* currencyFromRawText or poDefault memory has confidence >=
\* minConfidenceToApply, learn does not upsert a memory of that key in this run,
\* whatever the human correction is: the run reports no memory update for the
\* key, leaves every record of the key as it was and adds none.
C21_AppliedFillNotReinforced ==
  call.op = "run" =>
    \A rule \in FillRules :
      RecalledAtThreshold(rule) =>
        /\ \A k \in 1..Len(result.output.memoryUpdates) :
              result.output.memoryUpdates[k].key # rule.key
        /\ \A i \in 1..Len(memories) :
              memories[i].key = rule.key => i <= Len(call.before) /\ memories[i] = call.before[i]

\* A run given the correction {serviceDate} while the service-date memory is
\* recalled above the threshold: the date is filled from memory and the memory
\* is not reinforced
C21_Witness ==
  /\ call.op = "run"
  /\ OnlyServiceDate(call.human)
  /\ NeedsServiceDate(call.invoice)
  /\ RecalledAtThreshold([key |-> "serviceDateFromLeistungsdatum", target |-> "serviceDate"])
  /\ TruthyStr(result.output.normalizedInvoice.serviceDate)
  /\ \E row \in RowsOf(memories) :
        row.key = "serviceDateFromLeistungsdatum" /\ row \in RowsOf(call.before)

====
